---- MODULE Spec2Model ----
(***************************************************************************)
(* A model of client/client.go: the request dispatch of Client.Do with its *)
(* cancellation race, the capability walk of getRequestCanceler, the       *)
(* request construction of DoRequestWithForm and the response              *)
(* classification of CallRet / ResponseError / parseError.                 *)
(***************************************************************************)
EXTENDS Integers, Sequences, FiniteSets, TLC

\* Longest chain of transport wrappers linked by NestedObject.
MaxChain == 3

\* ------------------------------------------------------------ Client.Do
VARIABLES
    ctx,            \* "nil" | "live" | "done": the context handed to Do
    ctxAtCall,      \* the value of ctx when Do was called (never changes)
    ctxReqid,       \* whether the context carries a request id
    chain,          \* r.Transport: <<>> is nil, else the wrappers, outermost first
    reqHeader,      \* req.Header of the request handed to Do
    pc,             \* position of the task that called Do
    gpc,            \* position of the goroutine of lines 160-163
    reqC,           \* number of values buffered in reqC (capacity 1)
    resp, err,      \* the named results of Do
    p,              \* getRequestCanceler: index of the object under probe
    rc, ok,         \* getRequestCanceler: its results (rc: index in the chain)
    rt,             \* the transport: "idle" | "inflight" | "finished"
    rtTask,         \* the task that ran the round trip: "none" | "caller" | "goroutine"
    rtResult,       \* what the transport returned: <<resp, err>>
    rtCount,        \* how many times the transport was invoked
    cancelCalls,    \* how many times CancelRequest(req) was called
    cancelledInFlight, \* the context was cancelled while the round trip was in flight
    bodyOpen,       \* the body of the response the transport produced is still open
    callErr,        \* the error CallWith returned
    path            \* the way Do took: "none" | "early" | "reqC" | "ctxDone" | "direct"

doVars == <<ctx, ctxAtCall, ctxReqid, chain, reqHeader, pc, gpc, reqC, resp, err,
            p, rc, ok, rt, rtTask, rtResult, rtCount, cancelCalls,
            cancelledInFlight, bodyOpen, callErr, path>>


\* ------------------------------------------------ Client.DoRequestWithForm
\* Longest request URL, in characters, and most values under one form key.
MaxUrl == 2
MaxVals == 2

VARIABLES
    fMethod,        \* argument method
    fUrl,           \* argument reqUrl, a sequence of characters
    fHeaders,       \* argument headers: [isNil, ContentType, Authorization]
    fData,          \* argument data: form key -> values
    fCred,          \* auth.CredentialsFromContext(ctx): "none" | "ok" | "signFails"
    fpc,            \* "idle" | "call" | "dispatched" | "failed"
    fReq,           \* the request handed to Client.Do
    fErr            \* the error returned before any dispatch

formVars == <<fMethod, fUrl, fHeaders, fData, fCred, fpc, fReq, fErr>>

\* ------------------------------------- CallRet, ResponseError, parseError
\* Longest response body, in tokens.
MaxBody == 3

VARIABLES
    rStatus,        \* resp.StatusCode
    rHeader,        \* resp.Header: [ContentType, XReqid], each a list of values
    rContentLength, \* resp.ContentLength: -1 when unknown
    rBody,          \* what resp.Body yields, a sequence of tokens
    rHasRet,        \* ret != nil
    rPos,           \* how many tokens of resp.Body have been read
    rClosed,        \* resp.Body.Close() was called
    rDest,          \* *ret: [set, members]
    rErr,           \* the error CallRet returns: [kind, info]
    rpc             \* "idle" | "call" | "status" | "defer" | "returned"

retVars == <<rStatus, rHeader, rContentLength, rBody, rHasRet, rPos, rClosed,
             rDest, rErr, rpc>>

vars == <<doVars, formVars, retVars>>

IdleDo ==
    /\ ctx = "nil"
    /\ ctxAtCall = "nil"
    /\ ctxReqid = FALSE
    /\ chain = <<>>
    /\ reqHeader = [UserAgent |-> <<>>, XReqid |-> <<>>]
    /\ pc = "idle"
    /\ gpc = "none"
    /\ reqC = 0
    /\ resp = "nil"
    /\ err = "nil"
    /\ p = 0
    /\ rc = 0
    /\ ok = FALSE
    /\ rt = "idle"
    /\ rtTask = "none"
    /\ rtResult = <<"nil", "nil">>
    /\ rtCount = 0
    /\ cancelCalls = 0
    /\ cancelledInFlight = FALSE
    /\ bodyOpen = FALSE
    /\ callErr = "nil"
    /\ path = "none"

\* Sequences over S of length at most n.
SeqUpTo(S, n) == UNION { [1..k -> S] : k \in 0..n }

\* "" is sent as GET by http.NewRequest; "G T" is not a valid method token.
Methods == {"GET", "HEAD", "DELETE", "POST", "", "G T"}

\* Characters of a URL: '?', '#' and any other character.
UrlChars == {"h", "?", "#"}

FormKeys == {"a", "b"}

\* Form values: one that url.QueryEscape leaves alone, one that it escapes.
FormValues == {"1", "&"}

FormType == "application/x-www-form-urlencoded"

NoRequest ==
    [method |-> "", url |-> <<>>, header |-> [ContentType |-> <<>>, Authorization |-> <<>>],
     hasBody |-> FALSE, body |-> <<>>, contentLength |-> 0]

IdleForm ==
    /\ fMethod = ""
    /\ fUrl = <<>>
    /\ fHeaders = [isNil |-> TRUE, ContentType |-> <<>>, Authorization |-> <<>>]
    /\ fData = [k \in FormKeys |-> <<>>]
    /\ fCred = "none"
    /\ fpc = "idle"
    /\ fReq = NoRequest
    /\ fErr = "nil"

\* url.QueryEscape of a value.
QueryEscape(v) == IF v = "&" THEN <<"%", "2", "6">> ELSE <<v>>

\* The key=value pairs of url.Values.Encode, keys sorted.
RECURSIVE PairsOf(_, _)
PairsOf(k, vs) ==
    IF vs = <<>> THEN <<>> ELSE <<<<k, Head(vs)>>>> \o PairsOf(k, Tail(vs))

FormPairs(data) == PairsOf("a", data["a"]) \o PairsOf("b", data["b"])

\* url.Values(data).Encode(): the pairs joined by '&', values escaped.
RECURSIVE JoinPairs(_)
JoinPairs(ps) ==
    IF ps = <<>> THEN <<>>
    ELSE LET one == <<Head(ps)[1], "=">> \o QueryEscape(Head(ps)[2])
         IN  IF Tail(ps) = <<>> THEN one ELSE one \o <<"&">> \o JoinPairs(Tail(ps))

Encode(data) == JoinPairs(FormPairs(data))

\* strings.ContainsRune(reqUrl, '?')
ContainsQuestionMark(u) == \E i \in 1..Len(u) : u[i] = "?"

\* Fault: Separator without the test of line 104.
Separator_AlwaysQuestionMark(u) == "?"

\* Lines 104-108: the character put between reqUrl and the encoded form.
Separator(u) == IF ContainsQuestionMark(u) THEN "&" ELSE "?"

\* Lines 38-62, newRequest: http.NewRequest (which refuses an invalid method
\* and sends "" as GET), the headers, the Authorization header when the
\* context carries credentials.
newRequest(method, reqUrl, headers, hasBody, body) ==
    IF method = "G T"
    THEN [req |-> NoRequest, err |-> "newRequestErr"]
    ELSE IF fCred = "signFails"
    THEN [req |-> NoRequest, err |-> "signErr"]
    ELSE [req |-> [method |-> IF method = "" THEN "GET" ELSE method,
                   url |-> reqUrl,
                   header |-> [ContentType |-> headers.ContentType,
                               Authorization |->
                                   IF fCred = "ok"
                                   THEN Append(headers.Authorization, "QBox token")
                                   ELSE headers.Authorization],
                   hasBody |-> hasBody,
                   body |-> body,
                   contentLength |-> IF hasBody THEN Len(body) ELSE 0],
          err |-> "nil"]

\* Lines 64-70, DoRequest: a request without a body.
DoRequest(method, reqUrl, headers) == newRequest(method, reqUrl, headers, FALSE, <<>>)

\* Lines 72-81, DoRequestWith: req.ContentLength = int64(bodyLength).
DoRequestWith(method, reqUrl, headers, body, bodyLength) ==
    LET r == newRequest(method, reqUrl, headers, TRUE, body)
    IN  IF r.err # "nil" THEN r
        ELSE [r EXCEPT !.req.contentLength = bodyLength]

\* Lines 97-100: headers.Add("Content-Type", ...), on a fresh header when nil.
FormHeaders(headers) ==
    [ContentType |-> Append(headers.ContentType, FormType),
     Authorization |-> headers.Authorization]

\* Lines 94-113 up to the call of r.Do.
FormRequest(method, reqUrl, headers, data) ==
    LET requestData == Encode(data)
    IN  IF method = "GET" \/ method = "HEAD" \/ method = "DELETE"
        THEN DoRequest(method, reqUrl \o <<Separator(reqUrl)>> \o requestData,
                       FormHeaders(headers))
        ELSE DoRequestWith(method, reqUrl, FormHeaders(headers), requestData,
                           Len(requestData))


\* A body is a sequence of tokens: the braces of a JSON object, its members
\* "error":"E" (e), "error":"" (e0), "key":"k1" (k), "errno":612 (n), and a
\* run of bytes that is not JSON (x).
BodyTokens == {"{", "}", "e", "e0", "k", "n", "x"}

Members == {"e", "e0", "k", "n"}

Statuses == {199, 200, 299, 300, 500}

JsonType == <<"application/json">>

\* Values of a Content-Type header, each a sequence of parts.
ContentTypes ==
    { <<>>, <<JsonType>>, << <<"application/json", "; charset=utf-8">> >>,
      << <<"text/plain">> >> }

NoInfo == [Err |-> <<>>, Key |-> <<>>, Reqid |-> <<>>, Errno |-> 0, Code |-> 0]

NoError == [kind |-> "none", info |-> NoInfo]

IdleRet ==
    /\ rStatus = 0
    /\ rHeader = [ContentType |-> <<>>, XReqid |-> <<>>]
    /\ rContentLength = 0
    /\ rBody = <<>>
    /\ rHasRet = FALSE
    /\ rPos = 0
    /\ rClosed = FALSE
    /\ rDest = [set |-> FALSE, members |-> <<>>]
    /\ rErr = NoError
    /\ rpc = "idle"

\* ------------------------------------------- DoRequestWithForm, the call
InitForm ==
    /\ fMethod \in Methods
    /\ fUrl \in SeqUpTo(UrlChars, MaxUrl)
    /\ fHeaders \in
          { [isNil |-> TRUE, ContentType |-> <<>>, Authorization |-> <<>>],
            [isNil |-> FALSE, ContentType |-> <<>>, Authorization |-> <<>>],
            [isNil |-> FALSE, ContentType |-> <<"text/plain">>, Authorization |-> <<>>] }
    /\ fData \in [FormKeys -> SeqUpTo(FormValues, MaxVals)]
    /\ fCred \in {"none", "ok", "signFails"}
    /\ fpc = "call"
    /\ fReq = NoRequest
    /\ fErr = "nil"
    /\ IdleDo
    /\ IdleRet

\* Lines 94-113: build the request and hand it to r.Do, or return the error
\* of newRequest without dispatching anything.
DoRequestWithForm ==
    /\ fpc = "call"
    /\ LET r == FormRequest(fMethod, fUrl, fHeaders, fData)
       IN  IF r.err # "nil"
           THEN /\ fErr' = r.err
                /\ fReq' = fReq
                /\ fpc' = "failed"
           ELSE /\ fErr' = fErr
                /\ fReq' = r.req
                /\ fpc' = "dispatched"
    /\ UNCHANGED <<fMethod, fUrl, fHeaders, fData, fCred>>
    /\ UNCHANGED <<doVars, retVars>>

NextForm == DoRequestWithForm

SpecForm == InitForm /\ [][NextForm]_vars

\* ----------------------------------------------------- CallRet, the call
InitCallRet ==
    /\ rStatus \in Statuses
    /\ rHeader \in [ContentType : ContentTypes, XReqid : {<<>>, <<"rid">>}]
    /\ rBody \in SeqUpTo(BodyTokens, MaxBody)
    /\ rContentLength \in {-1, Len(rBody)}
    /\ rHasRet \in BOOLEAN
    /\ rPos = 0
    /\ rClosed = FALSE
    /\ rDest = [set |-> FALSE, members |-> <<>>]
    /\ rErr = NoError
    /\ rpc = "call"
    /\ IdleDo
    /\ IdleForm

\* The first token after the opening brace that is no member (0: none).
FirstNonMember(b) ==
    IF \E i \in 2..Len(b) : b[i] \notin Members
    THEN CHOOSE i \in 2..Len(b) :
            /\ b[i] \notin Members
            /\ \A j \in 2..(i-1) : b[j] \in Members
    ELSE 0

\* json.NewDecoder(r).Decode(ret) on an unread body b: the first JSON value of
\* the stream, whatever follows it. upTo is the last token the decoder has to
\* read to decide (the end of the stream when it runs into it).
Decode(b) ==
    IF b = <<>> THEN [ok |-> FALSE, upTo |-> 0, members |-> <<>>]
    ELSE IF b[1] # "{" THEN [ok |-> FALSE, upTo |-> 1, members |-> <<>>]
    ELSE LET i == FirstNonMember(b)
         IN  IF i = 0 THEN [ok |-> FALSE, upTo |-> Len(b), members |-> <<>>]
             ELSE IF b[i] = "}"
             THEN [ok |-> TRUE, upTo |-> i, members |-> SubSeq(b, 2, i - 1)]
             ELSE [ok |-> FALSE, upTo |-> i, members |-> <<>>]

\* The value of the last member among ms that is in S, as v gives it (none: d).
RECURSIVE LastOf(_, _, _, _)
LastOf(ms, S, v, d) ==
    IF ms = <<>> THEN d
    ELSE IF ms[Len(ms)] \in S THEN v[ms[Len(ms)]]
    ELSE LastOf(SubSeq(ms, 1, Len(ms) - 1), S, v, d)

MemberValue ==
    [m \in Members |-> CASE m = "e" -> <<"E">>
                         [] m = "e0" -> <<>>
                         [] m = "k" -> <<"k1">>
                         [] m = "n" -> 612]

\* json.Unmarshal(body, &ret) of lines 218-223: the whole text must be one
\* JSON value; a repeated member keeps its last value.
Unmarshal(b) ==
    LET d == Decode(b)
    IN  IF d.ok /\ d.upTo = Len(b)
        THEN [ok |-> TRUE,
              Err |-> LastOf(d.members, {"e", "e0"}, MemberValue, <<>>),
              Key |-> LastOf(d.members, {"k"}, MemberValue, <<>>),
              Errno |-> LastOf(d.members, {"n"}, MemberValue, 0)]
        ELSE [ok |-> FALSE, Err |-> <<>>, Key |-> <<>>, Errno |-> 0]

\* Lines 210-229, parseError, on the unread rest of the body (reads do not fail).
parseError(e, body) ==
    LET ret == Unmarshal(body)
    IN  IF ret.ok /\ ret.Err # <<>>
        THEN [e EXCEPT !.Err = ret.Err, !.Key = ret.Key, !.Errno = ret.Errno]
        ELSE [e EXCEPT !.Err = body]

\* strings.HasPrefix(s, prefix)
HasPrefix(s, prefix) ==
    Len(s) >= Len(prefix) /\ SubSeq(s, 1, Len(prefix)) = prefix

\* resp.Header.Get(key): the first value, "" without one.
HeaderGet(values) == IF values = <<>> THEN <<>> ELSE values[1]

\* Line 237-240: whether ResponseError hands the body to parseError.
ParsesBody(status, contentLength, ct) ==
    /\ status > 299
    /\ contentLength # 0
    /\ ct # <<>>
    /\ HasPrefix(ct[1], JsonType)

\* Lines 231-246, ResponseError: the ErrorInfo, and how far the body is read.
ResponseError(status, header, contentLength, body, pos) ==
    LET e == [NoInfo EXCEPT !.Reqid = HeaderGet(header.XReqid), !.Code = status]
    IN  IF ParsesBody(status, contentLength, header.ContentType)
        THEN [info |-> parseError(e, SubSeq(body, pos + 1, Len(body))),
              pos |-> Len(body)]
        ELSE [info |-> e, pos |-> pos]

\* Fault: CallRetDecode without the return of lines 258-260.
CallRetDecode_IgnoreFailure ==
    /\ rpc = "call"
    /\ IF rStatus \div 100 = 2 /\ rHasRet /\ rContentLength # 0
       THEN LET d == Decode(rBody)
            IN  /\ \E q \in d.upTo..Len(rBody) : rPos' = q
                /\ rDest' = IF d.ok THEN [set |-> TRUE, members |-> d.members] ELSE rDest
                /\ rErr' = rErr
                /\ rpc' = "status"
       ELSE /\ rpc' = "status"
            /\ UNCHANGED <<rPos, rDest, rErr>>
    /\ UNCHANGED <<rStatus, rHeader, rContentLength, rBody, rHasRet, rClosed>>
    /\ UNCHANGED <<doVars, formVars>>

\* Lines 255-261: decode a 2xx body into ret; a decoder reads ahead of the
\* value it returns by as much as the stream hands it.
CallRetDecode ==
    /\ rpc = "call"
    /\ IF rStatus \div 100 = 2 /\ rHasRet /\ rContentLength # 0
       THEN LET d == Decode(rBody)
            IN  /\ \E q \in d.upTo..Len(rBody) : rPos' = q
                /\ IF d.ok
                   THEN /\ rDest' = [set |-> TRUE, members |-> d.members]
                        /\ rErr' = rErr
                        /\ rpc' = "status"
                   ELSE /\ rDest' = rDest
                        /\ rErr' = [kind |-> "decodeErr", info |-> NoInfo]
                        /\ rpc' = "defer"
       ELSE /\ rpc' = "status"
            /\ UNCHANGED <<rPos, rDest, rErr>>
    /\ UNCHANGED <<rStatus, rHeader, rContentLength, rBody, rHasRet, rClosed>>
    /\ UNCHANGED <<doVars, formVars>>

\* Fault: CallRetStatus returning nil for every 2xx status.
CallRetStatus_Every2xxNil ==
    /\ rpc = "status"
    /\ IF rStatus \div 100 = 2
       THEN /\ rErr' = [kind |-> "nil", info |-> NoInfo]
            /\ rPos' = rPos
       ELSE LET r == ResponseError(rStatus, rHeader, rContentLength, rBody, rPos)
            IN  /\ rErr' = [kind |-> "errorInfo", info |-> r.info]
                /\ rPos' = r.pos
    /\ rpc' = "defer"
    /\ UNCHANGED <<rStatus, rHeader, rContentLength, rBody, rHasRet, rClosed, rDest>>
    /\ UNCHANGED <<doVars, formVars>>

\* Lines 262-266: nil for status 200, else what ResponseError builds.
CallRetStatus ==
    /\ rpc = "status"
    /\ IF rStatus \div 100 = 2 /\ rStatus = 200
       THEN /\ rErr' = [kind |-> "nil", info |-> NoInfo]
            /\ rPos' = rPos
       ELSE LET r == ResponseError(rStatus, rHeader, rContentLength, rBody, rPos)
            IN  /\ rErr' = [kind |-> "errorInfo", info |-> r.info]
                /\ rPos' = r.pos
    /\ rpc' = "defer"
    /\ UNCHANGED <<rStatus, rHeader, rContentLength, rBody, rHasRet, rClosed, rDest>>
    /\ UNCHANGED <<doVars, formVars>>

\* Fault: CallRetDefer without the io.Copy of line 251.
CallRetDefer_NoDrain ==
    /\ rpc = "defer"
    /\ rPos' = rPos
    /\ rClosed' = TRUE
    /\ rpc' = "returned"
    /\ UNCHANGED <<rStatus, rHeader, rContentLength, rBody, rHasRet, rDest, rErr>>
    /\ UNCHANGED <<doVars, formVars>>

\* Lines 250-253, the deferred function: io.Copy(ioutil.Discard, resp.Body);
\* resp.Body.Close(); then CallRet returns.
CallRetDefer ==
    /\ rpc = "defer"
    /\ rPos' = Len(rBody)
    /\ rClosed' = TRUE
    /\ rpc' = "returned"
    /\ UNCHANGED <<rStatus, rHeader, rContentLength, rBody, rHasRet, rDest, rErr>>
    /\ UNCHANGED <<doVars, formVars>>

NextCallRet ==
    \/ CallRetDecode
    \/ CallRetStatus
    \/ CallRetDefer

SpecCallRet == InitCallRet /\ [][NextCallRet]_vars

\* ---------------------------------------------------- Client.Do, the call
\* http.DefaultTransport is an *http.Transport: it has CancelRequest and no
\* NestedObject.
DefaultTransport == <<[cancel |-> TRUE, nested |-> FALSE]>>

\* A transport object: whether it has CancelRequest, whether it has NestedObject.
TransportObject == [cancel : BOOLEAN, nested : BOOLEAN]

\* Every chain of at most MaxChain wrappers: an object has an inner object only
\* through its NestedObject; the innermost object's NestedObject, if it has
\* one, returns nil.
Chains ==
    UNION { { c \in [1..n -> TransportObject] : \A i \in 1..(n-1) : c[i].nested }
            : n \in 0..MaxChain }

\* transport := r.Transport; if transport == nil { transport = http.DefaultTransport }
Transport == IF chain = <<>> THEN DefaultTransport ELSE chain

\* p.(requestCanceler): the object at index i (nil beyond the end) has CancelRequest.
IsRequestCanceler(i) == i <= Len(Transport) /\ Transport[i].cancel

\* p.(nestedObjectGetter)
IsNestedObjectGetter(i) == i <= Len(Transport) /\ Transport[i].nested

UserAgent == "Golang qiniu/client package"

InitDo ==
    /\ ctx \in {"nil", "live", "done"}
    /\ ctxAtCall = ctx
    /\ ctxReqid \in (IF ctx = "nil" THEN {FALSE} ELSE BOOLEAN)
    /\ chain \in Chains
    /\ reqHeader \in [UserAgent : {<<>>, <<"caller-agent">>}, XReqid : {<<>>}]
    /\ pc = "entry"
    /\ gpc = "none"
    /\ reqC = 0
    /\ resp = "nil"
    /\ err = "nil"
    /\ p = 0
    /\ rc = 0
    /\ ok = FALSE
    /\ rt = "idle"
    /\ rtTask = "none"
    /\ rtResult = <<"nil", "nil">>
    /\ rtCount = 0
    /\ cancelCalls = 0
    /\ cancelledInFlight = FALSE
    /\ bodyOpen = FALSE
    /\ callErr = "nil"
    /\ path = "none"
    /\ IdleForm
    /\ IdleRet

\* The owner of the context cancels it, at any moment.
CancelContext ==
    /\ ctx = "live"
    /\ ctx' = "done"
    /\ cancelledInFlight' = (cancelledInFlight \/ rt = "inflight")
    /\ UNCHANGED <<path, ctxAtCall, ctxReqid, chain, reqHeader, pc, gpc, reqC, resp, err,
                   p, rc, ok, rt, rtTask, rtResult, rtCount, cancelCalls,
                   bodyOpen, callErr>>
    /\ UNCHANGED <<formVars, retVars>>

\* <-ctx.Done() is ready
CtxDone == ctx = "done"

\* Lines 132-147: the nil context, the X-Reqid and User-Agent headers.
DoEntry ==
    /\ pc = "entry"
    /\ reqHeader' = [UserAgent |-> IF reqHeader.UserAgent = <<>>
                                   THEN <<UserAgent>> ELSE reqHeader.UserAgent,
                     XReqid |-> IF ctxReqid THEN <<"reqid">> ELSE reqHeader.XReqid]
    /\ pc' = "check"
    /\ UNCHANGED <<path, ctx, ctxAtCall, ctxReqid, chain, gpc, reqC, resp, err,
                   p, rc, ok, rt, rtTask, rtResult, rtCount, cancelCalls,
                   cancelledInFlight, bodyOpen, callErr>>
    /\ UNCHANGED <<formVars, retVars>>

\* Fault: DoCheck without the ctx.Done case of lines 151-153.
DoCheck_NoEarlyReturn ==
    /\ pc = "check"
    /\ pc' = "probe"
    /\ UNCHANGED <<path, ctx, ctxAtCall, ctxReqid, chain, reqHeader, gpc, reqC, resp, err,
                   p, rc, ok, rt, rtTask, rtResult, rtCount, cancelCalls,
                   cancelledInFlight, bodyOpen, callErr>>
    /\ UNCHANGED <<formVars, retVars>>

\* Lines 150-155: select { case <-ctx.Done(): err = ctx.Err(); return; default: }
DoCheck ==
    /\ pc = "check"
    /\ \/ /\ CtxDone
          /\ err' = "ctxErr"
          /\ path' = "early"
          /\ pc' = "returned"
       \/ /\ ~CtxDone
          /\ err' = err
          /\ path' = path
          /\ pc' = "probe"
    /\ UNCHANGED <<ctx, ctxAtCall, ctxReqid, chain, reqHeader, gpc, reqC, resp,
                   p, rc, ok, rt, rtTask, rtResult, rtCount, cancelCalls,
                   cancelledInFlight, bodyOpen, callErr>>
    /\ UNCHANGED <<formVars, retVars>>

\* Line 157: where Do goes with getRequestCanceler's answer.
AfterWalk(found) == IF found THEN "spawn" ELSE "direct"

\* Lines 330-334: probe the top-level transport, else start unwrapping at it.
WalkProbe ==
    /\ pc = "probe"
    /\ IF IsRequestCanceler(1)
       THEN /\ rc' = 1
            /\ ok' = TRUE
            /\ p' = 1
            /\ pc' = AfterWalk(TRUE)
       ELSE /\ rc' = 0
            /\ ok' = FALSE
            /\ p' = 1
            /\ pc' = "loop"
    /\ UNCHANGED <<path, ctx, ctxAtCall, ctxReqid, chain, reqHeader, gpc, reqC, resp, err,
                   rt, rtTask, rtResult, rtCount, cancelCalls,
                   cancelledInFlight, bodyOpen, callErr>>
    /\ UNCHANGED <<formVars, retVars>>

\* Fault: WalkLoop without the probe of the inner object, lines 341-343.
WalkLoop_NoProbeInner ==
    /\ pc = "loop"
    /\ IF ~IsNestedObjectGetter(p)
       THEN /\ pc' = AfterWalk(FALSE)
            /\ UNCHANGED <<p, rc, ok>>
       ELSE /\ p' = p + 1
            /\ pc' = "loop"
            /\ UNCHANGED <<rc, ok>>
    /\ UNCHANGED <<path, ctx, ctxAtCall, ctxReqid, chain, reqHeader, gpc, reqC, resp, err,
                   rt, rtTask, rtResult, rtCount, cancelCalls,
                   cancelledInFlight, bodyOpen, callErr>>
    /\ UNCHANGED <<formVars, retVars>>

\* Lines 335-344, one iteration: return without a canceler when p exposes no
\* inner object, else unwrap and probe the inner object (nil is index Len+1).
WalkLoop ==
    /\ pc = "loop"
    /\ IF ~IsNestedObjectGetter(p)
       THEN /\ pc' = AfterWalk(FALSE)
            /\ UNCHANGED <<p, rc, ok>>
       ELSE /\ p' = p + 1
            /\ IF IsRequestCanceler(p + 1)
               THEN /\ rc' = p + 1
                    /\ ok' = TRUE
                    /\ pc' = AfterWalk(TRUE)
               ELSE /\ UNCHANGED <<rc, ok>>
                    /\ pc' = "loop"
    /\ UNCHANGED <<path, ctx, ctxAtCall, ctxReqid, chain, reqHeader, gpc, reqC, resp, err,
                   rt, rtTask, rtResult, rtCount, cancelCalls,
                   cancelledInFlight, bodyOpen, callErr>>
    /\ UNCHANGED <<formVars, retVars>>

\* Lines 159-163: reqC := make(chan bool, 1); go func() { ... }()
DoSpawn ==
    /\ pc = "spawn"
    /\ gpc' = "ready"
    /\ reqC' = 0
    /\ pc' = "select"
    /\ UNCHANGED <<path, ctx, ctxAtCall, ctxReqid, chain, reqHeader, resp, err,
                   p, rc, ok, rt, rtTask, rtResult, rtCount, cancelCalls,
                   cancelledInFlight, bodyOpen, callErr>>
    /\ UNCHANGED <<formVars, retVars>>

\* Line 161, the call: the goroutine hands the request to the transport.
GoRoundTripBegin ==
    /\ gpc = "ready"
    /\ gpc' = "roundtrip"
    /\ rt' = "inflight"
    /\ rtTask' = "goroutine"
    /\ rtCount' = rtCount + 1
    /\ UNCHANGED <<path, ctx, ctxAtCall, ctxReqid, chain, reqHeader, pc, reqC, resp, err,
                   p, rc, ok, rtResult, cancelCalls,
                   cancelledInFlight, bodyOpen, callErr>>
    /\ UNCHANGED <<formVars, retVars>>

\* What http.Client.Do returns: a response with an open body and no error, or
\* no response and an error. CancelRequest is advisory: a round trip whose
\* response has arrived completes with it all the same.
RoundTripResults == { <<"resp", "nil">>, <<"nil", "netErr">> }

\* Line 161, the assignment: resp, err = r.Client.Do(req)
GoRoundTripEnd ==
    /\ gpc = "roundtrip"
    /\ \E res \in RoundTripResults :
          /\ resp' = res[1]
          /\ err' = res[2]
          /\ rtResult' = res
          /\ bodyOpen' = (res[1] # "nil")
    /\ rt' = "finished"
    /\ gpc' = "send"
    /\ UNCHANGED <<path, ctx, ctxAtCall, ctxReqid, chain, reqHeader, pc, reqC,
                   p, rc, ok, rtTask, rtCount, cancelCalls,
                   cancelledInFlight, callErr>>
    /\ UNCHANGED <<formVars, retVars>>

\* Line 162: reqC <- true, the goroutine's last statement.
GoSend ==
    /\ gpc = "send"
    /\ reqC < 1
    /\ reqC' = reqC + 1
    /\ gpc' = "done"
    /\ UNCHANGED <<path, ctx, ctxAtCall, ctxReqid, chain, reqHeader, pc, resp, err,
                   p, rc, ok, rt, rtTask, rtResult, rtCount, cancelCalls,
                   cancelledInFlight, bodyOpen, callErr>>
    /\ UNCHANGED <<formVars, retVars>>

\* Lines 164-166: select { case <-reqC: ... case <-ctx.Done(): ... }; with both
\* ready the runtime takes either.
DoSelect ==
    /\ pc = "select"
    /\ \/ /\ reqC > 0
          /\ reqC' = reqC - 1
          /\ path' = "reqC"
          /\ pc' = "returned"
       \/ /\ CtxDone
          /\ reqC' = reqC
          /\ path' = "ctxDone"
          /\ pc' = "cancel"
    /\ UNCHANGED <<ctx, ctxAtCall, ctxReqid, chain, reqHeader, gpc, resp, err,
                   p, rc, ok, rt, rtTask, rtResult, rtCount, cancelCalls,
                   cancelledInFlight, bodyOpen, callErr>>
    /\ UNCHANGED <<formVars, retVars>>

\* Fault: DoCancel returning without the receive of line 168.
DoCancel_NoWait ==
    /\ pc = "cancel"
    /\ cancelCalls' = cancelCalls + 1
    /\ pc' = "returned"
    /\ err' = "ctxErr"
    /\ UNCHANGED <<path, ctx, ctxAtCall, ctxReqid, chain, reqHeader, gpc, reqC, resp,
                   p, rc, ok, rt, rtTask, rtResult, rtCount,
                   cancelledInFlight, bodyOpen, callErr>>
    /\ UNCHANGED <<formVars, retVars>>

\* Line 167: tr.CancelRequest(req)
DoCancel ==
    /\ pc = "cancel"
    /\ cancelCalls' = cancelCalls + 1
    /\ pc' = "wait"
    /\ UNCHANGED <<path, ctx, ctxAtCall, ctxReqid, chain, reqHeader, gpc, reqC, resp, err,
                   p, rc, ok, rt, rtTask, rtResult, rtCount,
                   cancelledInFlight, bodyOpen, callErr>>
    /\ UNCHANGED <<formVars, retVars>>

\* Lines 168-169: <-reqC; err = ctx.Err()
DoWait ==
    /\ pc = "wait"
    /\ reqC > 0
    /\ reqC' = reqC - 1
    /\ err' = "ctxErr"
    /\ pc' = "returned"
    /\ UNCHANGED <<path, ctx, ctxAtCall, ctxReqid, chain, reqHeader, gpc, resp,
                   p, rc, ok, rt, rtTask, rtResult, rtCount, cancelCalls,
                   cancelledInFlight, bodyOpen, callErr>>
    /\ UNCHANGED <<formVars, retVars>>

\* Line 172, the call: the calling task hands the request to the transport.
DoDirectBegin ==
    /\ pc = "direct"
    /\ pc' = "directWait"
    /\ path' = "direct"
    /\ rt' = "inflight"
    /\ rtTask' = "caller"
    /\ rtCount' = rtCount + 1
    /\ UNCHANGED <<ctx, ctxAtCall, ctxReqid, chain, reqHeader, gpc, reqC, resp, err,
                   p, rc, ok, rtResult, cancelCalls,
                   cancelledInFlight, bodyOpen, callErr>>
    /\ UNCHANGED <<formVars, retVars>>

\* Fault: DoDirectEnd reporting a cancelled context instead of the transport's error.
DoDirectEnd_CtxErr ==
    /\ pc = "directWait"
    /\ \E res \in RoundTripResults :
          /\ resp' = res[1]
          /\ err' = IF CtxDone THEN "ctxErr" ELSE res[2]
          /\ rtResult' = res
          /\ bodyOpen' = (res[1] # "nil")
    /\ rt' = "finished"
    /\ pc' = "returned"
    /\ UNCHANGED <<path, ctx, ctxAtCall, ctxReqid, chain, reqHeader, gpc, reqC,
                   p, rc, ok, rtTask, rtCount, cancelCalls,
                   cancelledInFlight, callErr>>
    /\ UNCHANGED <<formVars, retVars>>

\* Line 172, the assignment: resp, err = r.Client.Do(req)
DoDirectEnd ==
    /\ pc = "directWait"
    /\ \E res \in RoundTripResults :
          /\ resp' = res[1]
          /\ err' = res[2]
          /\ rtResult' = res
          /\ bodyOpen' = (res[1] # "nil")
    /\ rt' = "finished"
    /\ pc' = "returned"
    /\ UNCHANGED <<path, ctx, ctxAtCall, ctxReqid, chain, reqHeader, gpc, reqC,
                   p, rc, ok, rtTask, rtCount, cancelCalls,
                   cancelledInFlight, callErr>>
    /\ UNCHANGED <<formVars, retVars>>

\* Lines 292-296 (CallWith, and the same lines of its siblings): an error from
\* Do is returned with the response dropped; otherwise CallRet takes the
\* response, whose deferred function (lines 250-253) closes the body.
CallWith ==
    /\ pc = "returned"
    /\ IF err # "nil"
       THEN /\ callErr' = err
            /\ bodyOpen' = bodyOpen
       ELSE /\ callErr' = "nil"
            /\ bodyOpen' = FALSE
    /\ pc' = "end"
    /\ UNCHANGED <<path, ctx, ctxAtCall, ctxReqid, chain, reqHeader, gpc, reqC, resp, err,
                   p, rc, ok, rt, rtTask, rtResult, rtCount, cancelCalls,
                   cancelledInFlight>>
    /\ UNCHANGED <<formVars, retVars>>

NextDo ==
    \/ CancelContext
    \/ DoEntry
    \/ DoCheck
    \/ WalkProbe
    \/ WalkLoop
    \/ DoSpawn
    \/ GoRoundTripBegin
    \/ GoRoundTripEnd
    \/ GoSend
    \/ DoSelect
    \/ DoCancel
    \/ DoWait
    \/ DoDirectBegin
    \/ DoDirectEnd
    \/ CallWith


SpecDo == InitDo /\ [][NextDo]_vars
\* The calling task and the goroutine are scheduled: a started walk is run on.
FairSpecDo == SpecDo /\ WF_vars(WalkProbe) /\ WF_vars(WalkLoop)

\* ------------------------------------------------- claims about Client.Do
\* Do has returned to its caller.
DoReturned == pc \in {"returned", "end"}

\* The goroutine of lines 160-163 exists and has not sent its completion signal.
BackgroundRunning == gpc \in {"ready", "roundtrip", "send"}

\* C1, as amended: when Do's select takes the ctx.Done case, Do calls
\* CancelRequest once before it waits, returns only after the goroutine has sent
\* its completion signal, and returns the context's error; and Do never returns
\* while the goroutine is still running, whichever case the select takes.
C1_CancelThenDrain ==
    /\ DoReturned => ~BackgroundRunning
    /\ pc = "wait" => cancelCalls = 1
    /\ (DoReturned /\ path = "ctxDone") =>
           /\ cancelCalls = 1
           /\ gpc = "done"
           /\ err = "ctxErr"
    /\ (DoReturned /\ path = "reqC") =>
           /\ cancelCalls = 0
           /\ gpc = "done"
           /\ <<resp, err>> = rtResult

\* C1 witness: the context was cancelled with the round trip in flight, the
\* select took ctx.Done, and Do has returned after the goroutine finished.
C1_Witness ==
    /\ pc = "returned"
    /\ path = "ctxDone"
    /\ cancelledInFlight
    /\ cancelCalls = 1
    /\ gpc = "done"

\* C1 as stated: a cancellation that happens while the request is in flight on
\* a cancel-capable transport always makes Do call CancelRequest and return
\* the context's error.
C1_Original ==
    (DoReturned /\ cancelledInFlight /\ rtTask = "goroutine") =>
        /\ cancelCalls = 1
        /\ err = "ctxErr"
        /\ ~BackgroundRunning

\* C2: with the context already cancelled when Do is called, the transport is
\* never invoked, no goroutine is started, and Do returns the context's error
\* with no response.
C2_PreCancelled ==
    ctxAtCall = "done" =>
        /\ rtCount = 0
        /\ rt = "idle"
        /\ gpc = "none"
        /\ DoReturned => (err = "ctxErr" /\ resp = "nil")

\* C2 witness: Do has returned on a context that was cancelled at the call.
C2_Witness == ctxAtCall = "done" /\ pc = "returned" /\ path = "early"

\* Some object of the transport chain has CancelRequest.
HasCancelCapability == \E i \in 1..Len(Transport) : Transport[i].cancel

\* C8: on a transport without cancel capability, once Do is past its initial
\* check it starts no goroutine and calls no CancelRequest, runs the round
\* trip on the calling task, and returns exactly what the transport returned,
\* never the context's error, also when the context is cancelled meanwhile.
C8_NoCapabilityNoEffect ==
    (~HasCancelCapability /\ path # "early") =>
        /\ gpc = "none"
        /\ cancelCalls = 0
        /\ DoReturned =>
              /\ path = "direct"
              /\ rtTask = "caller"
              /\ rtCount = 1
              /\ rt = "finished"
              /\ <<resp, err>> = rtResult
              /\ err # "ctxErr"

\* C8 witness: no capability, the context was cancelled after the initial
\* check, and Do has returned from the direct round trip.
C8_Witness ==
    /\ ~HasCancelCapability
    /\ pc = "returned"
    /\ path = "direct"
    /\ ctx = "done"

\* getRequestCanceler has returned.
WalkFinished == pc \notin {"entry", "check", "probe", "loop"} /\ path # "early"

\* The outermost object with CancelRequest (0: none).
OutermostCanceler ==
    IF HasCancelCapability
    THEN CHOOSE i \in 1..Len(Transport) :
            /\ Transport[i].cancel
            /\ \A j \in 1..(i-1) : ~Transport[j].cancel
    ELSE 0

\* The first object (nil is Len+1) with neither CancelRequest nor NestedObject.
FirstDeadEnd ==
    CHOOSE i \in 1..(Len(Transport) + 1) :
        /\ ~IsRequestCanceler(i) /\ ~IsNestedObjectGetter(i)
        /\ \A j \in 1..(i-1) : IsRequestCanceler(j) \/ IsNestedObjectGetter(j)

\* What getRequestCanceler must have answered.
WalkCorrect ==
    /\ ok <=> HasCancelCapability
    /\ ok => (rc = OutermostCanceler /\ p = rc)
    /\ ~ok => (rc = 0 /\ p = FirstDeadEnd)

\* C9: on every finite chain the walk terminates; it reports a capability iff
\* some object of the chain has CancelRequest, the outermost such object; with
\* none it stops at the first object that has neither CancelRequest nor
\* NestedObject.
C9_WalkTerminatesCorrect ==
    /\ [](WalkFinished => WalkCorrect)
    /\ [](pc = "probe" => <>(pc \notin {"probe", "loop"}))

\* C9 witness: the capability was found by unwrapping, below the top level.
C9_Witness == WalkFinished /\ ok /\ rc >= 2 /\ pc = "spawn"

\* C10 as stated: a non-nil error of Do comes with a nil response (so that
\* CallWith, which drops the response on an error, leaves no body open).
C10_ErrorMeansNoResponse ==
    /\ DoReturned => (err # "nil" => resp = "nil")
    /\ pc = "end" => ~bodyOpen
\* ------------------------------------------- claims about DoRequestWithForm
QueryMethods == {"GET", "HEAD", "DELETE"}

\* The URL has a query component: a '?' before any '#' (RFC 3986).
HasQueryComponent(u) ==
    \E i \in 1..Len(u) : u[i] = "?" /\ \A j \in 1..(i-1) : u[j] # "#"

\* The request DoRequestWithForm must dispatch when sep separates URL and form.
FormDispatch(sep) ==
    LET form == Encode(fData)
    IN  IF fMethod \in QueryMethods
        THEN /\ fReq.method = fMethod
             /\ fReq.url = fUrl \o <<sep>> \o form
             /\ ~fReq.hasBody
             /\ fReq.body = <<>>
             /\ fReq.contentLength = 0
        ELSE /\ fReq.url = fUrl
             /\ fReq.hasBody
             /\ fReq.body = form
             /\ fReq.contentLength = Len(form)
             /\ Len(fReq.header.ContentType) >= 1
             /\ fReq.header.ContentType[Len(fReq.header.ContentType)] = FormType

\* C7, as amended: with GET, HEAD or DELETE the request has no body and its
\* URL is the given URL, then '&' when the URL string contains a '?'
\* character anywhere (also inside a fragment) and '?' when it contains none,
\* then the encoded form; with any other method the URL is unchanged, the
\* body is the encoded form, the length its length, and Content-Type carries
\* application/x-www-form-urlencoded.
C7_FormRequest ==
    fpc = "dispatched" =>
        FormDispatch(IF \E i \in 1..Len(fUrl) : fUrl[i] = "?" THEN "&" ELSE "?")

\* C7 witness: GET on a URL with a query component and a two-pair form.
C7_Witness ==
    /\ fpc = "dispatched"
    /\ fMethod = "GET"
    /\ fUrl = <<"h", "?">>
    /\ fData = [k \in FormKeys |-> IF k = "a" THEN <<"1">> ELSE <<"&">>]
    /\ fReq.url = <<"h", "?", "&", "a", "=", "1", "&", "b", "=", "%", "2", "6">>
    /\ ~fReq.hasBody

\* C7 as stated: '&' exactly when the URL has a query component.
C7_Original ==
    fpc = "dispatched" =>
        FormDispatch(IF HasQueryComponent(fUrl) THEN "&" ELSE "?")

\* ----------------------------------------------------- claims about CallRet
\* Decoding was attempted: a 2xx status, a destination, a body announced.
DecodeAttempted == rStatus \div 100 = 2 /\ rHasRet /\ rContentLength # 0

\* C3: whenever CallRet has returned, on the success path, the decode-failure
\* path and the ErrorInfo path alike, the body has been read to its end and
\* closed; and it is closed only by then.
C3_BodyDrainedAndClosed ==
    /\ rpc = "returned" => (rPos = Len(rBody) /\ rClosed)
    /\ rClosed => rpc = "returned"

\* C3 witness: CallRet has returned a decode error for a body the decoder
\* gave up on at its first token, three tokens long.
C3_Witness ==
    /\ rpc = "returned"
    /\ rErr.kind = "decodeErr"
    /\ Len(rBody) = 3
    /\ Decode(rBody).upTo = 1
    /\ rClosed

Decodable == rHasRet /\ rBody # <<>> /\ rContentLength # 0 /\ Decode(rBody).ok

\* C5, as amended: a decodable body populates the destination for every
\* status in [200,299]; CallRet returns no error for status 200 only, and an
\* ErrorInfo carrying the status for a status in [201,299].
C5_DecodedSuccess ==
    (rpc = "returned" /\ rStatus \in 200..299 /\ Decodable) =>
        /\ rDest = [set |-> TRUE, members |-> Decode(rBody).members]
        /\ rStatus = 200 => rErr.kind = "nil"
        /\ rStatus # 200 => (rErr.kind = "errorInfo" /\ rErr.info.Code = rStatus)

\* C5 witness: status 200, a destination, an object with a member decoded.
C5_Witness ==
    /\ rpc = "returned"
    /\ rStatus = 200
    /\ Decodable
    /\ rDest = [set |-> TRUE, members |-> <<"k">>]
    /\ rErr.kind = "nil"

\* C5 as stated: no error and a populated destination for every status in
\* [200,299] with a decodable body.
C5_Original ==
    (rpc = "returned" /\ rStatus \in 200..299 /\ Decodable) =>
        (rErr.kind = "nil" /\ rDest.set)

\* The body is a JSON object with a non-empty "error" member.
IsJsonErrorObject(b) == Unmarshal(b).ok /\ Unmarshal(b).Err # <<>>

\* C6 as stated: outside [200,299], a non-empty body that is no JSON error
\* object is the ErrorInfo's Err verbatim, whatever the Content-Type.
C6_VerbatimBody ==
    (rpc = "returned" /\ rStatus \notin 200..299 /\ rBody # <<>>
        /\ ~IsJsonErrorObject(rBody)) =>
        (rErr.kind = "errorInfo" /\ rErr.info.Err = rBody)
====
